---------------------------- MODULE Spec2Model ----------------------------
(***************************************************************************)
(* Control and experiment-sequencing engine of the dual-ESC balance rig    *)
(* (src/PracticeV2/PracticeV2.ino, the version with the sampling buffer,   *)
(* lines 477-1180).                                                        *)
(*                                                                         *)
(* Numbers.  The 32-bit millisecond clock is a pair <<hi, lo>> of 16-bit   *)
(* halves, because the model checker's integers are 32-bit signed; all     *)
(* clock arithmetic is modulo 2^32.  The float quantities are fixed-point  *)
(* integers that truncate toward zero: gains in units of 1/GainUnit,       *)
(* IntUs in units of 1/IntUnit microsecond, DerivFilt in units of          *)
(* 1/DerivUnit count per second.  The rounding error of the 32-bit floats   *)
(* is not modelled.  Delays are exact; the code between them takes no      *)
(* time.                                                                   *)
(***************************************************************************)
EXTENDS Integers, Sequences, FiniteSets, TLC

(***************************************************************************)
(* Program constants.                                                      *)
(***************************************************************************)
PulseMinUs == 1100
PulseMaxUs == 1500
BaseUs == 1250
DeltaMaxUs == 120
SlewStepUs == 4
PotCenter == 660
PotMinSafe == 300
PotMaxSafe == 900
LoopDtMs == 10
BootHoldMs == 10000
IntegralMaxUs == 80
ExperimentDurationMs == 20000
SamplePeriodMs == 50
MaxSamples == 500
CalMaxHoldMs == 5000
CalMinHoldMs == 6000
InterlockDelayMs == 200
SerialDelayMs == 50
WifiPollMs == 250
\* PotAlpha = 0.20f and DAlpha = 0.20f, as the fraction 1/AlphaDen
AlphaDen == 5
\* constrain() ranges of /set, in gain units: 5.0, 1.0, 2.0
KpMax == 500000
KiMax == 100000
KdMax == 200000
\* initial gains 0.25, 0.10, 0.10
KpInit == 25000
KiInit == 10000
KdInit == 10000
\* the +-2000 us limit and the ADC range used when a sample is stored
SampleLimUs == 2000
AdcMax == 1023

(***************************************************************************)
(* Fixed-point scales of the float quantities.                             *)
(***************************************************************************)
GainUnit == 100000
IntUnit == 1000000
DerivUnit == 1000
Half16 == 32768
Word16 == 65536

(***************************************************************************)
(* Bounds of the model.                                                    *)
(***************************************************************************)
\* inputs of the environment in one behaviour: requests (/start included), idle
\* loop() iterations that serve nothing, changes of the sensor value
MaxEvents == 2
\* the sensor changes within this many control steps of a run, and a nested /start
\* arrives within this many iterations of the staging slew or in its last one
VarySteps == 3
\* depth of start requests served from inside the staging slew
MaxNest == 1

\* control steps after which a run with a constant reading has settled: the filter
\* closes a fifth of its distance per step and the commands move SlewStepUs per step
SettleSteps == 100
\* milliseconds Web.send may block while the page is sent
PageSendMs == 5000

(***************************************************************************)
(* Integer helpers.                                                        *)
(***************************************************************************)
Abs(x) == IF x < 0 THEN -x ELSE x

\* C's integer division and float-to-int conversion: toward zero
TruncDiv(a, b) == IF a >= 0 THEN a \div b ELSE -((-a) \div b)

ClampInt(v, lo, hi) == IF v < lo THEN lo ELSE IF v > hi THEN hi ELSE v

(***************************************************************************)
(* uint32_t arithmetic on <<hi, lo>>.                                      *)
(***************************************************************************)
U32(n) == <<(n \div Word16) % Word16, n % Word16>>

\* a + n for 0 <= n < 2^31, modulo 2^32
U32Add(a, n) ==
    LET lo == a[2] + (n % Word16)
        hi == a[1] + (n \div Word16) + (lo \div Word16)
    IN  <<hi % Word16, lo % Word16>>

\* a - b modulo 2^32
U32Sub(a, b) ==
    LET lo == a[2] - b[2]
        borrow == IF lo < 0 THEN 1 ELSE 0
        hi == a[1] - b[1] - borrow
    IN  <<(hi + Word16) % Word16, (lo + Word16) % Word16>>

\* unsigned a < b
U32Lt(a, b) == a[1] < b[1] \/ (a[1] = b[1] /\ a[2] < b[2])

\* (int32_t)a >= 0
S32NonNeg(a) == a[1] < Half16

\* the value of a, for a < 2^31
U32Val(a) == a[1] * Word16 + a[2]

\* (uint16_t)a
U16Of(a) == a[2]

(***************************************************************************)
(* State.                                                                  *)
(***************************************************************************)
VARIABLES
    pc,                 \* where the single thread of control stands
    stack,              \* done flags of the SlewBothTo iterations suspended in ServiceWeb
    now,                \* millis()
    pot,                \* what analogRead(PinPot) returns
    relay,              \* level of the relay pin: "unset", "off", "on"
    relayOnCalls, relayOffCalls,
    out1, out2,         \* last pulse written to Esc1 / Esc2 (0: none yet)
    CmdUs1, CmdUs2,
    PotFiltered, lastY, IntUs, DerivFilt, LastTsMs,
    uDiff,              \* (int)uDiff of the last control step
    KpUsPerCount, KiUsPerCountSec, KdUsPerCountPerSec, InvertDirection,
    ExperimentRunning, ExperimentEndMs, ExperimentStartMs,
    NextSampleAtMs, SampleCount, SamplesReady,
    Tms, AdcRaw, AdcFilt, AdcErr, PUs, IUs, DUs,
                        \* the sample arrays, as the sequences of their entries
                        \* 0..SampleCount-1 (what lies beyond is never read)
    resp,               \* the last HTTP response sent
    op,                 \* the operation the last step performed
    checkAt,            \* millis() at the last end-of-step test of loop()
    jump,               \* largest change of a pulse by one write of the last step,
                        \* the end-of-run park left out
    potSafe,            \* the sensor has been inside [PotMinSafe, PotMaxSafe] so far
    target1, target2,   \* the arguments of the call of SlewBothTo last made (0: none yet)
    events,             \* inputs of the environment consumed so far
    runs,               \* start requests accepted so far
    steps               \* iterations of the staging slew, then control steps of the run

ctrlVars == <<PotFiltered, lastY, IntUs, DerivFilt, LastTsMs, uDiff>>
gainVars == <<KpUsPerCount, KiUsPerCountSec, KdUsPerCountPerSec, InvertDirection>>
runVars == <<ExperimentRunning, ExperimentEndMs>>
bufVars == <<Tms, AdcRaw, AdcFilt, AdcErr, PUs, IUs, DUs>>
sampleVars == <<ExperimentStartMs, NextSampleAtMs, SampleCount, SamplesReady, bufVars>>
relayVars == <<relay, relayOnCalls, relayOffCalls>>
escVars == <<out1, out2, CmdUs1, CmdUs2>>
envVars == <<pot, potSafe>>
countVars == <<events, runs, steps>>
slewVars == <<target1, target2>>
vars == <<pc, stack, now, resp, op, jump, checkAt, ctrlVars, gainVars, runVars, sampleVars,
          relayVars, escVars, envVars, countVars, slewVars>>

\* sensor values the environment produces: both unsafe sides, off centre, centre
RawInputs == {PotMinSafe - 1, PotCenter - 40, PotCenter, PotMaxSafe + 1}

IsSafe(raw) == ~(raw < PotMinSafe \/ raw > PotMaxSafe)

NoResp == [msg |-> "none"]

Init ==
    /\ pc = "setup"
    /\ stack = <<>>
    /\ now = U32(0)
    /\ pot \in RawInputs
    /\ relay = "unset" /\ relayOnCalls = 0 /\ relayOffCalls = 0
    /\ out1 = 0 /\ out2 = 0
    /\ CmdUs1 = PulseMinUs /\ CmdUs2 = PulseMinUs
    /\ PotFiltered = 0 /\ lastY = 0 /\ IntUs = 0 /\ DerivFilt = 0
    /\ LastTsMs = U32(0) /\ uDiff = 0
    /\ KpUsPerCount = KpInit /\ KiUsPerCountSec = KiInit
    /\ KdUsPerCountPerSec = KdInit /\ InvertDirection = FALSE
    /\ ExperimentRunning = FALSE /\ ExperimentEndMs = U32(0)
    /\ ExperimentStartMs = U32(0) /\ NextSampleAtMs = U32(0)
    /\ SampleCount = 0 /\ SamplesReady = FALSE
    /\ Tms = <<>> /\ AdcRaw = <<>> /\ AdcFilt = <<>> /\ AdcErr = <<>>
    /\ PUs = <<>> /\ IUs = <<>> /\ DUs = <<>>
    /\ resp = NoResp
    /\ op = "construct"
    /\ jump = 0
    /\ checkAt = U32(0)
    /\ potSafe = IsSafe(pot)
    /\ events = 0 /\ runs = 0 /\ steps = 0
    /\ target1 = 0 /\ target2 = 0

(***************************************************************************)
(* setup(): relay off, ESCs attached and held at MIN, boot hold, relay on, *)
(* arming (MAX then MIN), network.                                         *)
(***************************************************************************)
SetupBegin ==
    /\ pc = "setup"
    /\ now' = U32Add(now, SerialDelayMs)
    /\ relay' = "off" /\ relayOffCalls' = relayOffCalls + 1
    /\ CmdUs1' = PulseMinUs /\ CmdUs2' = PulseMinUs
    /\ out1' = PulseMinUs /\ out2' = PulseMinUs
    /\ pc' = "boothold"
    /\ op' = "SetupBegin"
    /\ UNCHANGED <<slewVars, checkAt, stack, resp, jump, relayOnCalls, ctrlVars, gainVars, runVars,
                   sampleVars, envVars, countVars>>

BootHold ==
    /\ pc = "boothold"
    /\ now' = U32Add(now, BootHoldMs)
    /\ pc' = "relayon"
    /\ op' = "BootHold"
    /\ UNCHANGED <<slewVars, checkAt, stack, resp, jump, ctrlVars, gainVars, runVars, sampleVars,
                   relayVars, escVars, envVars, countVars>>

SetupRelayOn ==
    /\ pc = "relayon"
    /\ relay' = "on" /\ relayOnCalls' = relayOnCalls + 1
    /\ pc' = "calmax"
    /\ op' = "RelayOn"
    /\ UNCHANGED <<slewVars, checkAt, stack, now, resp, jump, relayOffCalls, ctrlVars, gainVars, runVars,
                   sampleVars, escVars, envVars, countVars>>

\* a variant of CalibrateMax that writes nothing before the hold
CalibrateMaxNoWrite ==
    /\ pc = "calmax"
    /\ now' = U32Add(now, CalMaxHoldMs)
    /\ pc' = "calmin"
    /\ op' = "CalibrateMax"
    /\ UNCHANGED <<slewVars, checkAt, stack, resp, jump, escVars, ctrlVars, gainVars, runVars,
                   sampleVars, relayVars, envVars, countVars>>

\* CalibrateBothMaxMin, first half: MAX written (the stored commands are not), held
CalibrateMax ==
    /\ pc = "calmax"
    /\ out1' = PulseMaxUs /\ out2' = PulseMaxUs
    /\ now' = U32Add(now, CalMaxHoldMs)
    /\ pc' = "calmin"
    /\ op' = "CalibrateMax"
    /\ UNCHANGED <<slewVars, checkAt, stack, resp, jump, CmdUs1, CmdUs2, ctrlVars, gainVars, runVars,
                   sampleVars, relayVars, envVars, countVars>>

\* a variant of CalibrateMin that de-energizes the relay when arming is done
CalibrateMinRelayOff ==
    /\ pc = "calmin"
    /\ out1' = PulseMinUs /\ out2' = PulseMinUs
    /\ CmdUs1' = PulseMinUs /\ CmdUs2' = PulseMinUs
    /\ relay' = "off" /\ relayOffCalls' = relayOffCalls + 1
    /\ now' = U32Add(now, CalMinHoldMs)
    /\ pc' = "net"
    /\ op' = "CalibrateMin"
    /\ UNCHANGED <<slewVars, checkAt, stack, resp, jump, relayOnCalls, ctrlVars, gainVars,
                   runVars, sampleVars, envVars, countVars>>

\* CalibrateBothMaxMin, second half: MIN written, held, then HoldEscMin
CalibrateMin ==
    /\ pc = "calmin"
    /\ out1' = PulseMinUs /\ out2' = PulseMinUs
    /\ CmdUs1' = PulseMinUs /\ CmdUs2' = PulseMinUs
    /\ now' = U32Add(now, CalMinHoldMs)
    /\ pc' = "net"
    /\ op' = "CalibrateMin"
    /\ UNCHANGED <<slewVars, checkAt, stack, resp, jump, ctrlVars, gainVars, runVars, sampleVars,
                   relayVars, envVars, countVars>>

\* a variant of SetupNet that de-energizes the relay
SetupNetRelayOff ==
    /\ pc = "net"
    /\ now' = U32Add(now, WifiPollMs)
    /\ relay' = "off"
    /\ pc' = "loop"
    /\ op' = "SetupNet"
    /\ UNCHANGED <<slewVars, checkAt, stack, resp, jump, ctrlVars, gainVars, runVars, sampleVars,
                   relayOnCalls, relayOffCalls, escVars, envVars, countVars>>

\* SetupWiFiSta and StartHttpServer: one poll of the connection, then loop() begins
SetupNet ==
    /\ pc = "net"
    /\ now' = U32Add(now, WifiPollMs)
    /\ pc' = "loop"
    /\ op' = "SetupNet"
    /\ UNCHANGED <<slewVars, checkAt, stack, resp, jump, ctrlVars, gainVars, runVars, sampleVars,
                   relayVars, escVars, envVars, countVars>>

Armed == pc \in {"loop", "slew", "started", "resume", "idletail"}

(***************************************************************************)
(* ControlStepPID, as functions of what it reads.                          *)
(***************************************************************************)
\* PotFiltered = (int)((1-PotAlpha)*PotFiltered + PotAlpha*raw), seeded with raw when 0
FilterPot(pf, raw) ==
    LET seed == IF pf = 0 THEN raw ELSE pf
    IN  TruncDiv((AlphaDen - 1) * seed + raw, AlphaDen)

\* err = PotCenter - PotFiltered, negated when InvertDirection
ErrOf(pf, inv) == IF inv THEN -(PotCenter - pf) ELSE PotCenter - pf

\* a variant of DtMsOf without the floor
DtMsOfNoFloor(t, last) ==
    LET l == IF last = U32(0) THEN t ELSE last
    IN  U32Val(U32Sub(t, l))

\* dtSec in milliseconds: now - LastTsMs, LoopDtMs when that is not positive
DtMsOf(t, last) ==
    LET l == IF last = U32(0) THEN t ELSE last
        d == U32Sub(t, l)
    IN  IF d = U32(0) THEN LoopDtMs ELSE U32Val(d)

\* dY = (PotFiltered - lastY) / dtSec, lastY seeded with PotFiltered when 0
DerivRaw(pf, ly, dt) ==
    LET l == IF ly = 0 THEN pf ELSE ly
    IN  TruncDiv((pf - l) * DerivUnit * 1000, dt)

\* DerivFilt = (1-DAlpha)*DerivFilt + DAlpha*dY
DerivNext(df, dy) == TruncDiv((AlphaDen - 1) * df + dy, AlphaDen)

\* a variant of IntegrateClamp without the clamp
IntegrateNoClamp(int, ki, err, dt) ==
    int + TruncDiv(ki * err, (GainUnit * 1000) \div IntUnit) * dt

\* IntUs += Ki*err*dtSec, then the clamp to +-IntegralMaxUs
IntegrateClamp(int, ki, err, dt) ==
    LET inc == TruncDiv(ki * err, (GainUnit * 1000) \div IntUnit) * dt
        v == int + inc
        lim == IntegralMaxUs * IntUnit
    IN  IF v > lim THEN lim ELSE IF v < -lim THEN -lim ELSE v

\* the three terms, in 1/1000 us
PTerm(kp, err) == TruncDiv(kp * err, GainUnit \div 1000)
ITerm(int) == TruncDiv(int, IntUnit \div 1000)
DTerm(kd, df) == -(TruncDiv(kd, GainUnit \div 1000) * TruncDiv(df, DerivUnit))

\* a variant of DiffOut without the clamp
DiffOutNoClamp(kp, kd, err, int, df) ==
    TruncDiv(PTerm(kp, err) + ITerm(int) + DTerm(kd, df), 1000)

\* (int)uDiff after the clamp to +-DeltaMaxUs
DiffOut(kp, kd, err, int, df) ==
    LET u == PTerm(kp, err) + ITerm(int) + DTerm(kd, df)
        lim == DeltaMaxUs * 1000
        c == IF u > lim THEN lim ELSE IF u < -lim THEN -lim ELSE u
    IN  TruncDiv(c, 1000)

\* a variant of SlewStep that moves up whatever the target
SlewStepUp(cmd, target) == cmd + SlewStepUs

\* one slew-limited move of a command toward its target
SlewStep(cmd, target) == cmd + ClampInt(target - cmd, -SlewStepUs, SlewStepUs)

\* a variant of OutOfRange that tests the lower limit only
OutOfRangeLowOnly(raw) == raw < PotMinSafe

\* the interlock test on the raw reading
OutOfRange(raw) == raw < PotMinSafe \/ raw > PotMaxSafe

\* a variant of ParkedStep that clears the integral
ParkedStepResets ==
    [parked |-> TRUE, pf |-> PotFiltered, ly |-> lastY, int |-> 0,
     df |-> DerivFilt, ts |-> LastTsMs, d |-> uDiff,
     c1 |-> PulseMinUs, c2 |-> PulseMinUs, delay |-> InterlockDelayMs]

\* the step when the reading is out of range: HoldEscMin, delay(200), return
ParkedStep ==
    [parked |-> TRUE, pf |-> PotFiltered, ly |-> lastY, int |-> IntUs,
     df |-> DerivFilt, ts |-> LastTsMs, d |-> uDiff,
     c1 |-> PulseMinUs, c2 |-> PulseMinUs, delay |-> InterlockDelayMs]

\* the whole step: what the controller state and the commands become for reading raw
ControlStepPID(raw) ==
    IF OutOfRange(raw)
    THEN ParkedStep
    ELSE LET pf == FilterPot(PotFiltered, raw)
             err == ErrOf(pf, InvertDirection)
             dt == DtMsOf(now, LastTsMs)
             df == DerivNext(DerivFilt, DerivRaw(pf, lastY, dt))
             int == IntegrateClamp(IntUs, KiUsPerCountSec, err, dt)
             d == DiffOut(KpUsPerCount, KdUsPerCountPerSec, err, int, df)
             u1 == ClampInt(BaseUs + d, PulseMinUs, PulseMaxUs)
             u2 == ClampInt(BaseUs - d, PulseMinUs, PulseMaxUs)
         IN  [parked |-> FALSE, pf |-> pf, ly |-> pf, int |-> int, df |-> df,
              ts |-> now, d |-> d,
              c1 |-> SlewStep(CmdUs1, u1), c2 |-> SlewStep(CmdUs2, u2), delay |-> 0]

(***************************************************************************)
(* TrySample at time t, after the control step left pf, int, df.           *)
(***************************************************************************)
Clamp16(v, lim) == IF v > lim THEN lim ELSE IF v < -lim THEN -lim ELSE v

\* a variant of SampleDue without the capacity test
SampleDueNoCap(t) ==
    /\ ExperimentRunning
    /\ ~U32Lt(t, NextSampleAtMs)

\* the three tests TrySample makes before it stores a sample
SampleDue(t) ==
    /\ ExperimentRunning
    /\ ~U32Lt(t, NextSampleAtMs)
    /\ ~(SampleCount >= MaxSamples)

\* the values TrySample stores
SampleOf(t, raw, pf, int, df) ==
    LET err == ErrOf(pf, InvertDirection)
    IN  [t |-> U16Of(U32Sub(t, ExperimentStartMs)),
         raw |-> ClampInt(raw, 0, AdcMax),
         filt |-> ClampInt(pf, 0, AdcMax),
         err |-> ClampInt(err, -Half16, Half16 - 1),
         p |-> Clamp16(TruncDiv(KpUsPerCount * err, GainUnit), SampleLimUs),
         i |-> Clamp16(TruncDiv(int, IntUnit), SampleLimUs),
         d |-> Clamp16(-TruncDiv(TruncDiv(KdUsPerCountPerSec, GainUnit \div 1000)
                                 * TruncDiv(df, DerivUnit), 1000), SampleLimUs)]

\* a variant of Store that writes the entry before idx when there is one
StoreBefore(arr, idx, v) ==
    IF arr = <<>> THEN Append(arr, v) ELSE [arr EXCEPT ![Len(arr)] = v]

\* arr[idx] = v for the C index idx
Store(arr, idx, v) ==
    IF idx = Len(arr) THEN Append(arr, v) ELSE [arr EXCEPT ![idx + 1] = v]

\* a variant of RunOver that forgets the duration
RunOverFromStart(t, endMs) ==
    S32NonNeg(U32Sub(t, U32Sub(endMs, U32(ExperimentDurationMs))))

\* a variant of RunOver that compares the two clock values as unsigned numbers
RunOverUnsigned(t, endMs) == ~U32Lt(t, endMs)

\* the end-of-step test of loop(): (int32_t)(millis() - ExperimentEndMs) >= 0
RunOver(t, endMs) == S32NonNeg(U32Sub(t, endMs))


(***************************************************************************)
(* HTTP handlers.                                                          *)
(***************************************************************************)
\* String(x, dec) of a gain: rounded to dec decimals; the result in gain units
FormatGain(v, dec) ==
    LET step == IF dec = 3 THEN GainUnit \div 1000 ELSE GainUnit \div 10000
    IN  ((v + step \div 2) \div step) * step

\* a variant of Constrain without the upper limit
ConstrainLowOnly(v, lo, hi) == IF v < lo THEN lo ELSE v

\* constrain(x, lo, hi)
Constrain(v, lo, hi) == IF v < lo THEN lo ELSE IF v > hi THEN hi ELSE v

HasArg(a, n) == n \in DOMAIN a

HandleSet(a) ==
    /\ KpUsPerCount' = IF HasArg(a, "kp") THEN Constrain(a.kp, 0, KpMax) ELSE KpUsPerCount
    /\ KiUsPerCountSec' = IF HasArg(a, "ki") THEN Constrain(a.ki, 0, KiMax)
                          ELSE KiUsPerCountSec
    /\ KdUsPerCountPerSec' = IF HasArg(a, "kd") THEN Constrain(a.kd, 0, KdMax)
                             ELSE KdUsPerCountPerSec
    /\ InvertDirection' = IF HasArg(a, "invert") THEN a.invert # 0 ELSE InvertDirection
    /\ resp' = [msg |-> "ok"]

Remain ==
    LET d == U32Sub(ExperimentEndMs, now)
    IN  IF ExperimentRunning /\ S32NonNeg(d) THEN U32Val(d) ELSE 0

HandleState ==
    /\ resp' = [msg |-> "state",
                running |-> IF ExperimentRunning THEN 1 ELSE 0,
                remain_ms |-> Remain,
                kp |-> FormatGain(KpUsPerCount, 3),
                ki |-> FormatGain(KiUsPerCountSec, 4),
                kd |-> FormatGain(KdUsPerCountPerSec, 3),
                invert |-> IF InvertDirection THEN 1 ELSE 0,
                adc |-> pot,
                err |-> ErrOf(PotFiltered, InvertDirection),
                m1 |-> CmdUs1, m2 |-> CmdUs2]
    /\ UNCHANGED gainVars

\* a variant of HandleData that answers with the buffer whatever its state
HandleDataAlways ==
    /\ resp' = [msg |-> "data", count |-> SampleCount]
    /\ UNCHANGED gainVars

HandleData ==
    /\ resp' = IF ~SamplesReady \/ SampleCount = 0
               THEN [msg |-> "no_data"]
               ELSE [msg |-> "data", count |-> SampleCount]
    /\ UNCHANGED gainVars

HandleRoot ==
    /\ resp' = [msg |-> "page"]
    /\ UNCHANGED gainVars

\* Web.handleClient() dispatching one request other than /start
Dispatch(req) ==
    \/ req.kind = "state" /\ HandleState
    \/ req.kind = "data" /\ HandleData
    \/ req.kind = "root" /\ HandleRoot
    \/ req.kind = "set" /\ HandleSet(req.args)

\* the time the dispatched handler takes
Latency(req) == IF req.kind = "root" THEN PageSendMs ELSE 0

\* requests the environment sends: reads, the page, and a /set that asks for every
\* gain outside its range
SetAll == [kp |-> 600000, ki |-> 200000, kd |-> -5, invert |-> 1]
Requests ==
    { [kind |-> "state"], [kind |-> "data"], [kind |-> "root"],
      [kind |-> "set", args |-> SetAll] }

\* a variant of StartReset that leaves LastTsMs as it was
StartResetNoStamp ==
    /\ IntUs' = 0 /\ DerivFilt' = 0
    /\ SampleCount' = 0 /\ SamplesReady' = FALSE
    /\ Tms' = <<>> /\ AdcRaw' = <<>> /\ AdcFilt' = <<>> /\ AdcErr' = <<>>
    /\ PUs' = <<>> /\ IUs' = <<>> /\ DUs' = <<>>
    /\ ExperimentStartMs' = now /\ NextSampleAtMs' = now
    /\ runs' = runs + 1
    /\ UNCHANGED <<PotFiltered, lastY, uDiff, LastTsMs>>

\* HandleStart up to its call of SlewBothTo: controller and sampling reset
StartReset ==
    /\ IntUs' = 0 /\ DerivFilt' = 0 /\ LastTsMs' = now
    /\ SampleCount' = 0 /\ SamplesReady' = FALSE
    /\ Tms' = <<>> /\ AdcRaw' = <<>> /\ AdcFilt' = <<>> /\ AdcErr' = <<>>
    /\ PUs' = <<>> /\ IUs' = <<>> /\ DUs' = <<>>
    /\ ExperimentStartMs' = now /\ NextSampleAtMs' = now
    /\ runs' = runs + 1
    /\ UNCHANGED <<PotFiltered, lastY, uDiff>>

\* a variant of HandleStartBusy that resets the sampling before it answers
HandleStartBusyReset ==
    /\ resp' = [msg |-> "already_running"]
    /\ SampleCount' = 0 /\ SamplesReady' = FALSE
    /\ UNCHANGED <<ctrlVars, gainVars, runVars, escVars, ExperimentStartMs,
                   NextSampleAtMs, bufVars>>

\* HandleStart when an experiment runs: the answer and nothing else
HandleStartBusy ==
    /\ resp' = [msg |-> "already_running"]
    /\ UNCHANGED <<ctrlVars, gainVars, runVars, sampleVars, escVars>>

Max2(a, b) == IF a > b THEN a ELSE b
JumpOf(w1, w2) == Max2(Abs(w1 - out1), Abs(w2 - out2))

\* HoldEscMin
HoldEscMin ==
    /\ CmdUs1' = PulseMinUs /\ CmdUs2' = PulseMinUs
    /\ out1' = PulseMinUs /\ out2' = PulseMinUs

(***************************************************************************)
(* loop() while no experiment runs.                                        *)
(***************************************************************************)
\* a variant of LoopIdleWait that takes a sample
LoopIdleWaitSampling ==
    /\ pc = "loop" /\ ~ExperimentRunning
    /\ events < MaxEvents
    /\ events' = events + 1
    /\ HoldEscMin
    /\ SampleCount' = SampleCount + 1
    /\ jump' = JumpOf(PulseMinUs, PulseMinUs)
    /\ now' = U32Add(now, LoopDtMs)
    /\ op' = "none"
    /\ UNCHANGED <<slewVars, checkAt, pc, stack, resp, ctrlVars, gainVars, runVars,
                   ExperimentStartMs, NextSampleAtMs, SamplesReady, bufVars, relayVars,
                   envVars, runs, steps>>

\* an iteration whose ServiceWeb serves nothing
LoopIdleWait ==
    /\ pc = "loop" /\ ~ExperimentRunning
    /\ events < MaxEvents
    /\ events' = events + 1
    /\ HoldEscMin
    /\ jump' = JumpOf(PulseMinUs, PulseMinUs)
    /\ now' = U32Add(now, LoopDtMs)
    /\ op' = "none"
    /\ UNCHANGED <<slewVars, checkAt, pc, stack, resp, ctrlVars, gainVars, runVars, sampleVars, relayVars,
                   envVars, runs, steps>>

\* a variant of LoopIdle whose ServiceWeb is called whether or not an experiment runs
LoopIdleAlways(req) ==
    /\ pc = "loop"
    /\ events < MaxEvents
    /\ events' = events + 1
    /\ Dispatch(req)
    /\ HoldEscMin
    /\ jump' = JumpOf(PulseMinUs, PulseMinUs)
    /\ now' = U32Add(now, Latency(req) + LoopDtMs)
    /\ op' = req.kind
    /\ UNCHANGED <<slewVars, checkAt, pc, stack, ctrlVars, runVars, sampleVars, relayVars, envVars,
                   runs, steps>>

\* a variant of LoopIdle that also filters the sensor
LoopIdleFilters(req) ==
    /\ pc = "loop" /\ ~ExperimentRunning
    /\ events < MaxEvents
    /\ events' = events + 1
    /\ Dispatch(req)
    /\ HoldEscMin
    /\ PotFiltered' = FilterPot(PotFiltered, pot)
    /\ jump' = JumpOf(PulseMinUs, PulseMinUs)
    /\ now' = U32Add(now, Latency(req) + LoopDtMs)
    /\ op' = req.kind
    /\ UNCHANGED <<slewVars, checkAt, pc, stack, lastY, IntUs, DerivFilt, LastTsMs, uDiff, runVars,
                   sampleVars, relayVars, envVars, runs, steps>>

\* an iteration whose ServiceWeb serves a request other than /start
LoopIdle(req) ==
    /\ pc = "loop" /\ ~ExperimentRunning
    /\ events < MaxEvents
    /\ events' = events + 1
    /\ Dispatch(req)
    /\ HoldEscMin
    /\ jump' = JumpOf(PulseMinUs, PulseMinUs)
    /\ now' = U32Add(now, Latency(req) + LoopDtMs)
    /\ op' = req.kind
    /\ UNCHANGED <<slewVars, checkAt, pc, stack, ctrlVars, runVars, sampleVars, relayVars, envVars,
                   runs, steps>>

\* an iteration whose ServiceWeb dispatches /start: HandleStart begins
LoopIdleStart ==
    /\ pc = "loop" /\ ~ExperimentRunning
    /\ events < MaxEvents
    /\ events' = events + 1
    /\ StartReset
    /\ pc' = "slew"
    /\ steps' = 0
    /\ op' = "HandleStart"
    /\ jump' = 0
    /\ target1' = BaseUs /\ target2' = BaseUs
    /\ UNCHANGED <<checkAt, stack, now, resp, gainVars, runVars, relayVars, escVars, envVars>>

(***************************************************************************)
(* SlewBothTo(BaseUs, BaseUs) inside HandleStart.                          *)
(***************************************************************************)
\* a variant of SlewTarget that leaves the argument as it is
SlewTargetRaw(t) == t

\* the target a channel is driven to: the argument clamped to the working range
SlewTarget(t) == ClampInt(t, PulseMinUs, PulseMaxUs)

\* neither channel moved in the iteration: the loop ends after it
SlewDone == CmdUs1 = SlewTarget(target1) /\ CmdUs2 = SlewTarget(target2)
SlewWrite ==
    LET t1 == SlewTarget(target1)
        t2 == SlewTarget(target2)
        c1 == IF CmdUs1 # t1 THEN SlewStep(CmdUs1, t1) ELSE CmdUs1
        c2 == IF CmdUs2 # t2 THEN SlewStep(CmdUs2, t2) ELSE CmdUs2
    IN  /\ CmdUs1' = c1 /\ CmdUs2' = c2
        /\ out1' = c1 /\ out2' = c2
        /\ jump' = JumpOf(c1, c2)

\* one iteration of the loop; its ServiceWeb, if called, serves nothing
SlewIter ==
    /\ pc = "slew"
    /\ SlewWrite
    /\ now' = U32Add(now, LoopDtMs)
    /\ pc' = IF SlewDone THEN "started" ELSE "slew"
    /\ steps' = steps + 1
    /\ op' = "SlewIter"
    /\ UNCHANGED <<slewVars, checkAt, stack, resp, ctrlVars, gainVars, runVars, sampleVars, relayVars,
                   envVars, events, runs>>

\* one iteration whose ServiceWeb serves a request other than /start
SlewIterServe(req) ==
    /\ pc = "slew" /\ ~ExperimentRunning
    /\ events < MaxEvents
    /\ events' = events + 1
    /\ SlewWrite
    /\ Dispatch(req)
    /\ now' = U32Add(now, Latency(req) + LoopDtMs)
    /\ pc' = IF SlewDone THEN "started" ELSE "slew"
    /\ steps' = steps + 1
    /\ op' = req.kind
    /\ UNCHANGED <<slewVars, checkAt, stack, ctrlVars, runVars, sampleVars, relayVars, envVars, runs>>

\* an iteration whose ServiceWeb dispatches /start again: the iteration is suspended
SlewIterStart ==
    /\ pc = "slew" /\ ~ExperimentRunning
    /\ events < MaxEvents /\ Len(stack) < MaxNest
    /\ steps < VarySteps \/ SlewDone
    /\ events' = events + 1
    /\ SlewWrite
    /\ StartReset
    /\ stack' = Append(stack, SlewDone)
    /\ pc' = "slew"
    /\ steps' = 0
    /\ op' = "HandleStart"
    /\ target1' = BaseUs /\ target2' = BaseUs
    /\ UNCHANGED <<checkAt, now, resp, gainVars, runVars, relayVars, envVars>>

\* HandleStart after SlewBothTo returned
StartFinish ==
    /\ pc = "started"
    /\ ExperimentRunning' = TRUE
    /\ ExperimentEndMs' = U32Add(now, ExperimentDurationMs)
    /\ resp' = [msg |-> "started"]
    /\ now' = U32Add(now, 2)
    /\ pc' = IF stack = <<>> THEN "idletail" ELSE "resume"
    /\ steps' = 0
    /\ op' = "StartFinish"
    /\ jump' = 0
    /\ UNCHANGED <<slewVars, checkAt, stack, ctrlVars, gainVars, sampleVars, relayVars, escVars, envVars,
                   events, runs>>

\* back in the suspended iteration of the outer SlewBothTo: delay, loop test
SlewResume ==
    /\ pc = "resume"
    /\ now' = U32Add(now, LoopDtMs)
    /\ pc' = IF stack[Len(stack)] THEN "started" ELSE "slew"
    /\ stack' = SubSeq(stack, 1, Len(stack) - 1)
    /\ op' = "SlewResume"
    /\ jump' = 0
    /\ UNCHANGED <<slewVars, checkAt, resp, ctrlVars, gainVars, runVars, sampleVars, relayVars, escVars,
                   envVars, countVars>>

\* a variant of IdleTail that takes the idle branch for the end of a run
IdleTailStops ==
    /\ pc = "idletail"
    /\ HoldEscMin
    /\ ExperimentRunning' = FALSE
    /\ jump' = JumpOf(PulseMinUs, PulseMinUs)
    /\ now' = U32Add(now, LoopDtMs)
    /\ pc' = "loop"
    /\ op' = "IdleTail"
    /\ UNCHANGED <<slewVars, checkAt, stack, resp, ctrlVars, gainVars, ExperimentEndMs, sampleVars,
                   relayVars, envVars, countVars>>

\* back in loop() after the ServiceWeb that served /start: HoldEscMin, delay
IdleTail ==
    /\ pc = "idletail"
    /\ HoldEscMin
    /\ jump' = JumpOf(PulseMinUs, PulseMinUs)
    /\ now' = U32Add(now, LoopDtMs)
    /\ pc' = "loop"
    /\ op' = "IdleTail"
    /\ UNCHANGED <<slewVars, checkAt, stack, resp, ctrlVars, gainVars, runVars, sampleVars, relayVars,
                   envVars, countVars>>

(***************************************************************************)
(* loop() while the experiment runs: ControlStepPID, TrySample, end test.  *)
(***************************************************************************)
\* the sensor reads raw: the value it had, or another one early in a run
PotNext(raw) ==
    \/ raw = pot /\ UNCHANGED events
    \/ /\ raw # pot
       /\ events < MaxEvents /\ steps < VarySteps
       /\ events' = events + 1

RunIter ==
    /\ pc = "loop" /\ ExperimentRunning
    /\ \E raw \in RawInputs :
         /\ PotNext(raw)
         /\ pot' = raw
         /\ potSafe' = (potSafe /\ IsSafe(raw))
         /\ LET r == ControlStepPID(raw)
                t == U32Add(now, r.delay)
                v == SampleOf(t, raw, r.pf, r.int, r.df)
            IN  /\ PotFiltered' = r.pf /\ lastY' = r.ly /\ IntUs' = r.int
                /\ DerivFilt' = r.df /\ LastTsMs' = r.ts /\ uDiff' = r.d
                /\ jump' = JumpOf(r.c1, r.c2)
                /\ checkAt' = t
                /\ IF SampleDue(t)
                   THEN /\ Tms' = Store(Tms, SampleCount, v.t)
                        /\ AdcRaw' = Store(AdcRaw, SampleCount, v.raw)
                        /\ AdcFilt' = Store(AdcFilt, SampleCount, v.filt)
                        /\ AdcErr' = Store(AdcErr, SampleCount, v.err)
                        /\ PUs' = Store(PUs, SampleCount, v.p)
                        /\ IUs' = Store(IUs, SampleCount, v.i)
                        /\ DUs' = Store(DUs, SampleCount, v.d)
                        /\ SampleCount' = SampleCount + 1
                        /\ NextSampleAtMs' = U32Add(NextSampleAtMs, SamplePeriodMs)
                   ELSE UNCHANGED <<bufVars, SampleCount, NextSampleAtMs>>
                /\ IF RunOver(t, ExperimentEndMs)
                   THEN /\ ExperimentRunning' = FALSE
                        /\ HoldEscMin
                        /\ SamplesReady' = TRUE
                        /\ now' = U32Add(t, 1 + WifiPollMs + LoopDtMs)
                   ELSE /\ CmdUs1' = r.c1 /\ CmdUs2' = r.c2
                        /\ out1' = r.c1 /\ out2' = r.c2
                        /\ now' = U32Add(t, LoopDtMs)
                        /\ UNCHANGED <<ExperimentRunning, SamplesReady>>
                /\ op' = IF r.parked THEN "Interlock" ELSE "ControlStep"
    /\ steps' = steps + 1
    /\ UNCHANGED <<slewVars, pc, stack, resp, gainVars, ExperimentEndMs, ExperimentStartMs,
                   relayVars, runs>>

Setup ==
    \/ SetupBegin \/ BootHold \/ SetupRelayOn \/ CalibrateMax \/ CalibrateMin
    \/ SetupNet

Next ==
    \/ Setup
    \/ LoopIdleWait
    \/ \E req \in Requests : LoopIdle(req)
    \/ LoopIdleStart
    \/ SlewIter
    \/ \E req \in Requests : SlewIterServe(req)
    \/ SlewIterStart
    \/ StartFinish
    \/ SlewResume
    \/ IdleTail
    \/ RunIter

Spec == Init /\ [][Next]_vars

\* the program stands where its next step waits for nothing from outside: inside
\* HandleStart, or in loop() with an experiment running
Executing ==
    \/ pc \in {"slew", "started", "resume", "idletail"}
    \/ pc = "loop" /\ ExperimentRunning

\* the values of the clock
Clock == (0 .. Word16 - 1) \X (0 .. Word16 - 1)

\* such a step (SlewIter, StartFinish, SlewResume, IdleTail or RunIter, one of which
\* is possible wherever Executing holds) takes time: the clock moves on
ClockAdvances == Executing /\ now' \in Clock

\* the processor keeps executing and the millisecond clock keeps advancing
FairSpec == Spec /\ WF_now(ClockAdvances)

(***************************************************************************)
(* HandleStart entered while an experiment runs.  loop() and SlewBothTo    *)
(* call ServiceWeb only while ExperimentRunning is false, so nothing in    *)
(* the program makes this call; here the handler is applied between two    *)
(* control steps of a run.                                                 *)
(***************************************************************************)
RunStart ==
    /\ pc = "loop" /\ ExperimentRunning
    /\ events < MaxEvents /\ steps < VarySteps
    /\ events' = events + 1
    /\ HandleStartBusy
    /\ op' = "HandleStart"
    /\ UNCHANGED <<slewVars, pc, stack, now, jump, checkAt, relayVars, envVars, runs, steps>>

NextStart == Next \/ RunStart

SpecStart == Init /\ [][NextStart]_vars

(***************************************************************************)
(* Configuration only: the idle loop() serving /set and /state requests.   *)
(***************************************************************************)
\* what toFloat() gives for a requested gain, in gain units: below every range, inside
\* every range with five decimals, above every range
CfgValues == {-5, 12346, 600000}

\* the arguments of a /set request: any subset of the four fields
CfgArgs ==
    UNION { { [f \in F |-> a[f]]
               : a \in [kp : CfgValues, ki : CfgValues, kd : CfgValues,
                         invert : {0, 1}] }
            : F \in SUBSET {"kp", "ki", "kd", "invert"} }

CfgRequests ==
    {[kind |-> "state"]} \cup {[kind |-> "set", args |-> a] : a \in CfgArgs}

NextCfg == Setup \/ \E req \in CfgRequests : LoopIdle(req)

SpecCfg == Init /\ [][NextCfg]_vars

(***************************************************************************)
(* Two runs with the sensor moved in between.  Nothing in loop() reads the *)
(* sensor while no experiment runs, so the move is a step of the           *)
(* environment alone.                                                      *)
(***************************************************************************)
\* the sensor off centre when the program starts
InitDrift == Init /\ pot = PotCenter - 40

\* the beam is brought to the centre after the first run
SensorMoves ==
    /\ pc = "loop" /\ ~ExperimentRunning
    /\ runs = 1 /\ pot # PotCenter
    /\ pot' = PotCenter
    /\ potSafe' = (potSafe /\ IsSafe(PotCenter))
    /\ UNCHANGED <<slewVars, pc, stack, now, resp, op, jump, checkAt, ctrlVars, gainVars, runVars,
                   sampleVars, relayVars, escVars, countVars>>

NextDrift ==
    \/ Setup
    \/ LoopIdleStart
    \/ SlewIter
    \/ StartFinish
    \/ IdleTail
    \/ RunIter
    \/ SensorMoves

SpecDrift == InitDrift /\ [][NextDrift]_vars

(***************************************************************************)
(* A start near the wrap of millis(): the program has idled, armed, for    *)
(* almost 2^32 ms and no experiment has run yet.                           *)
(***************************************************************************)
\* millis() when the start request arrives: the wrap falls inside the run, or inside
\* the staging slew, or the clock has just wrapped and reads 0
WrapStarts == {U32Sub(U32(0), U32(15000)), U32Sub(U32(0), U32(200)), U32(0)}

InitWrap ==
    /\ pc = "loop"
    /\ stack = <<>>
    /\ now \in WrapStarts
    /\ pot \in {PotCenter - 40, PotMaxSafe + 1}
    /\ relay = "on" /\ relayOnCalls = 1 /\ relayOffCalls = 1
    /\ out1 = PulseMinUs /\ out2 = PulseMinUs
    /\ CmdUs1 = PulseMinUs /\ CmdUs2 = PulseMinUs
    /\ PotFiltered = 0 /\ lastY = 0 /\ IntUs = 0 /\ DerivFilt = 0
    /\ LastTsMs = U32(0) /\ uDiff = 0
    /\ KpUsPerCount = KpInit /\ KiUsPerCountSec = KiInit
    /\ KdUsPerCountPerSec = KdInit /\ InvertDirection = FALSE
    /\ ExperimentRunning = FALSE /\ ExperimentEndMs = U32(0)
    /\ ExperimentStartMs = U32(0) /\ NextSampleAtMs = U32(0)
    /\ SampleCount = 0 /\ SamplesReady = FALSE
    /\ Tms = <<>> /\ AdcRaw = <<>> /\ AdcFilt = <<>> /\ AdcErr = <<>>
    /\ PUs = <<>> /\ IUs = <<>> /\ DUs = <<>>
    /\ resp = NoResp
    /\ op = "none"
    /\ jump = 0
    /\ checkAt = U32(0)
    /\ potSafe = IsSafe(pot)
    /\ events = 0 /\ runs = 0 /\ steps = 0
    /\ target1 = 0 /\ target2 = 0

NextWrap ==
    \/ LoopIdleStart
    \/ SlewIter
    \/ StartFinish
    \/ IdleTail
    \/ RunIter

SpecWrap == InitWrap /\ [][NextWrap]_vars

(***************************************************************************)
(* SlewBothTo as a function of the commands it starts from and of its      *)
(* arguments: a call just entered, iterated until it returns.              *)
(***************************************************************************)
\* the commands at the call: below, at the bottom of, inside and at the top of the
\* working range
SlewStarts == {800, PulseMinUs, BaseUs + 1, PulseMaxUs}

\* the arguments: below the range, its bottom, inside it, above it
SlewTargets == {0, PulseMinUs, BaseUs, 3000}

InitSlew ==
    /\ pc = "slew"
    /\ stack = <<>>
    /\ now = U32(0)
    /\ pot = PotCenter
    /\ relay = "on" /\ relayOnCalls = 1 /\ relayOffCalls = 1
    /\ CmdUs1 \in SlewStarts /\ CmdUs2 \in SlewStarts
    /\ out1 = CmdUs1 /\ out2 = CmdUs2
    /\ target1 \in SlewTargets /\ target2 \in SlewTargets
    /\ PotFiltered = 0 /\ lastY = 0 /\ IntUs = 0 /\ DerivFilt = 0
    /\ LastTsMs = U32(0) /\ uDiff = 0
    /\ KpUsPerCount = KpInit /\ KiUsPerCountSec = KiInit
    /\ KdUsPerCountPerSec = KdInit /\ InvertDirection = FALSE
    /\ ExperimentRunning = FALSE /\ ExperimentEndMs = U32(0)
    /\ ExperimentStartMs = U32(0) /\ NextSampleAtMs = U32(0)
    /\ SampleCount = 0 /\ SamplesReady = FALSE
    /\ Tms = <<>> /\ AdcRaw = <<>> /\ AdcFilt = <<>> /\ AdcErr = <<>>
    /\ PUs = <<>> /\ IUs = <<>> /\ DUs = <<>>
    /\ resp = NoResp
    /\ op = "SlewBothTo"
    /\ jump = 0
    /\ checkAt = U32(0)
    /\ potSafe = TRUE
    /\ events = 0 /\ runs = 0 /\ steps = 0

NextSlew == SlewIter

SpecSlew == InitSlew /\ [][NextSlew]_vars

(***************************************************************************)
(* Properties.                                                             *)
(***************************************************************************)
\* the last step was a control step of a run
StepTaken == op \in {"ControlStep", "Interlock"}

\* C1: while the raw sensor has stayed inside [PotMinSafe, PotMaxSafe], no write to
\* an actuator after arming moves its pulse by more than SlewStepUs, the park that
\* ends a run excepted.
SlewInvariant == (Armed /\ potSafe) => jump <= SlewStepUs

\* C2 as stated: after every control step of a run, interlock steps and the first
\* steps after the start included, CmdUs1 + CmdUs2 = 2*BaseUs.
SumIsTwiceBase ==
    (StepTaken /\ ExperimentRunning) => CmdUs1 + CmdUs2 = 2 * BaseUs

\* C2 amended: a control step with the sensor in range that does not end the run
\* moves each command by at most SlewStepUs toward BaseUs + d and BaseUs - d for the
\* one d = (int)uDiff of the step, |d| <= DeltaMaxUs, and it keeps
\* CmdUs1 + CmdUs2 = 2*BaseUs if that held before the step.
SymmetricStep ==
    [][(op' = "ControlStep" /\ ExperimentRunning') =>
          /\ Abs(uDiff') <= DeltaMaxUs
          /\ CmdUs1' = SlewStep(CmdUs1, BaseUs + uDiff')
          /\ CmdUs2' = SlewStep(CmdUs2, BaseUs - uDiff')
          /\ (CmdUs1 + CmdUs2 = 2 * BaseUs => CmdUs1' + CmdUs2' = 2 * BaseUs)]_vars

\* a control step has left the commands apart, at BaseUs + d and BaseUs - d
SymmetricStepDone ==
    /\ op = "ControlStep" /\ ExperimentRunning
    /\ uDiff # 0
    /\ CmdUs1 = BaseUs + uDiff /\ CmdUs2 = BaseUs - uDiff

\* C3: in every reachable state |IntUs| <= IntegralMaxUs.
IntegralBounded == Abs(IntUs) <= IntegralMaxUs * IntUnit

\* the accumulator stands at the negative limit during a run
IntegralAtLimit == ExperimentRunning /\ IntUs = -(IntegralMaxUs * IntUnit)

StartWhileRunningRejected ==
    [][(ExperimentRunning /\ op' = "HandleStart") =>
          /\ resp'.msg = "already_running"
          /\ UNCHANGED <<ExperimentRunning, ExperimentEndMs, ExperimentStartMs, IntUs,
                         DerivFilt, LastTsMs, SampleCount, SamplesReady, CmdUs1,
                         CmdUs2>>]_vars

\* a start request was answered "already_running" in a run that has samples
StartRejected ==
    /\ op = "HandleStart" /\ ExperimentRunning
    /\ resp.msg = "already_running"
    /\ SampleCount > 0

\* milliseconds from ExperimentEndMs - ExperimentDurationMs to t
ElapsedAt(t) == U32Val(U32Sub(t, U32Sub(ExperimentEndMs, U32(ExperimentDurationMs))))

\* the run is over: not running, both commands parked, the buffer readable
RunEnded ==
    /\ ~ExperimentRunning
    /\ CmdUs1 = PulseMinUs /\ CmdUs2 = PulseMinUs
    /\ SamplesReady

\* the end-of-step test ends the run exactly when the time elapsed since
\* ExperimentEndMs - ExperimentDurationMs has reached ExperimentDurationMs
EndsWhenDue ==
    StepTaken =>
        /\ ExperimentRunning <=> ElapsedAt(checkAt) < ExperimentDurationMs
        /\ ~ExperimentRunning => RunEnded

\* C6: every run ends: from ExperimentRunning a state is reached with
\* ExperimentRunning false, both commands at PulseMinUs and SamplesReady true, and
\* that is at the first end-of-step test at which the elapsed time is at least
\* ExperimentDurationMs.
RunEnds == (ExperimentRunning ~> RunEnded) /\ []EndsWhenDue

\* a control step has just ended a run at its due time
RunJustEnded ==
    /\ StepTaken /\ RunEnded
    /\ ElapsedAt(checkAt) >= ExperimentDurationMs
    /\ SampleCount > 0

\* C7: when a run has ended and the buffer is readable, every stored offset Tms[i]
\* is at most ExperimentDurationMs.
OffsetsWithinDuration ==
    (SamplesReady /\ ~ExperimentRunning) =>
        \A i \in 1..SampleCount : Tms[i] <= ExperimentDurationMs

\* C8: SampleCount <= MaxSamples in every state; a control step of a run taken with
\* SampleCount = MaxSamples leaves SampleCount and every stored sample unchanged; and
\* a run with a full buffer ends, at the first end-of-step test at which the elapsed
\* time is at least ExperimentDurationMs.
BufferFreezes ==
    /\ [](SampleCount <= MaxSamples)
    /\ [][(SampleCount = MaxSamples /\ op' \in {"ControlStep", "Interlock"}) =>
             UNCHANGED <<SampleCount, bufVars>>]_vars
    /\ []((StepTaken /\ SampleCount = MaxSamples) =>
             (ExperimentRunning <=> ElapsedAt(checkAt) < ExperimentDurationMs))
    /\ ((ExperimentRunning /\ SampleCount = MaxSamples) ~> RunEnded)

\* a run that filled the buffer has ended, when due
FullRunEnded ==
    /\ StepTaken /\ RunEnded
    /\ SampleCount = MaxSamples /\ Len(Tms) = MaxSamples
    /\ ElapsedAt(checkAt) >= ExperimentDurationMs

\* C9: SampleCount increases only in steps taken while ExperimentRunning is true; it
\* is 0 when ExperimentRunning becomes true; a step taken while ExperimentRunning is
\* false changes it only by the reset of an accepted start request.
SamplingOnlyWhileRunning ==
    [][/\ SampleCount' > SampleCount => ExperimentRunning
       /\ (~ExperimentRunning /\ ExperimentRunning') => SampleCount' = 0
       /\ (~ExperimentRunning /\ SampleCount' # SampleCount) =>
              (SampleCount' = 0 /\ op' = "HandleStart")]_vars

\* a run after a finished run has become Running, with the count back at 0
SecondRunStartsEmpty ==
    /\ pc = "idletail" /\ ExperimentRunning
    /\ SampleCount = 0
    /\ U32Val(ExperimentStartMs) > BootHoldMs + CalMaxHoldMs + CalMinHoldMs
                                    + ExperimentDurationMs

RoundedTo(r, v, dec) ==
    LET step == IF dec = 3 THEN GainUnit \div 1000 ELSE GainUnit \div 10000
    IN  r % step = 0 /\ 2 * Abs(r - v) <= step

RelayOffNever == relayOffCalls = 0 /\ relayOnCalls <= 1

\* C11 amended: RelayOff is invoked once, as the first act of setup(), and RelayOn
\* once, after the boot hold and immediately before the arming sequence; from then
\* on the relay is on and neither operation is invoked again.
RelayOnOnce ==
    /\ pc = "setup" => (relayOnCalls = 0 /\ relayOffCalls = 0 /\ relay = "unset")
    /\ pc \in {"boothold", "relayon"} =>
          (relayOnCalls = 0 /\ relayOffCalls = 1 /\ relay = "off")
    /\ pc \notin {"setup", "boothold", "relayon"} =>
          (relayOnCalls = 1 /\ relayOffCalls = 1 /\ relay = "on")
    /\ op = "RelayOn" <=> pc = "calmax"

\* a whole run is over and the relay is still on, energized once
RelayStillOn ==
    /\ pc = "loop" /\ RunEnded
    /\ relay = "on" /\ relayOnCalls = 1 /\ relayOffCalls = 1

\* C12: the arming sequence runs once, before any control step and before any start
\* request is handled: both outputs at PulseMaxUs through the first hold, both at
\* PulseMinUs with CmdUs1 = CmdUs2 = PulseMinUs when it completes; the outputs stay
\* at PulseMinUs until a start request is accepted, and arming is not run again.
ArmedOnce ==
    /\ pc = "calmin" =>
          (out1 = PulseMaxUs /\ out2 = PulseMaxUs /\ op = "CalibrateMax")
    /\ op = "CalibrateMax" => pc = "calmin"
    /\ op = "CalibrateMin" =>
          /\ pc = "net"
          /\ now = U32(SerialDelayMs + BootHoldMs + CalMaxHoldMs + CalMinHoldMs)
    /\ ~Armed => (runs = 0 /\ ~ExperimentRunning /\ ~StepTaken /\ resp = NoResp)
    /\ (pc \in {"net", "loop"} /\ runs = 0) =>
          /\ CmdUs1 = PulseMinUs /\ CmdUs2 = PulseMinUs
          /\ out1 = PulseMinUs /\ out2 = PulseMinUs

\* armed and idle: requests were served, none of them a start, outputs still parked
ArmedAndParked ==
    /\ pc = "loop" /\ runs = 0 /\ events > 1
    /\ resp.msg = "ok"
    /\ out1 = PulseMinUs /\ out2 = PulseMinUs

\* C13: in a run whose readings all equal PotCenter, once the settling time has passed
\* the filtered measurement equals PotCenter, the controller output is 0 and both
\* commands equal BaseUs, whatever earlier runs left behind.
SettlesAtCentre ==
    (/\ pc = "loop" /\ ExperimentRunning /\ StepTaken
     /\ steps > SettleSteps
     /\ pot = PotCenter
     /\ \A i \in 1 .. SampleCount : AdcRaw[i] = PotCenter)
    => /\ PotFiltered = PotCenter
       /\ uDiff = 0
       /\ CmdUs1 = BaseUs /\ CmdUs2 = BaseUs

\* the instant HandleStart armed the timer, ExperimentEndMs - ExperimentDurationMs
RunBeganAt == U32Sub(ExperimentEndMs, U32(ExperimentDurationMs))

\* milliseconds from s to t on a clock that wraps at 2^32, for t less than 2^31 past s
WrapElapsed(t, s) ==
    IF U32Lt(t, s)
    THEN (Word16 - 1 - s[1] + t[1]) * Word16 + (Word16 - s[2] + t[2])
    ELSE (t[1] - s[1]) * Word16 + (t[2] - s[2])

\* the start request of the run was accepted less than ExperimentDurationMs before the
\* clock wraps
StartedNearWrap ==
    U32Lt(U32Sub(U32(0), U32(ExperimentDurationMs)), ExperimentStartMs)

\* C14: for a run that starts within ExperimentDurationMs of the wrap of the clock,
\* after every end-of-step test the experiment is running exactly when the time elapsed
\* since the timer was armed, counted across the wrap, is below ExperimentDurationMs,
\* and a run that was ended is parked with its buffer readable.
EndsAcrossWrap ==
    (StepTaken /\ StartedNearWrap) =>
        /\ ExperimentRunning <=> WrapElapsed(checkAt, RunBeganAt) < ExperimentDurationMs
        /\ ~ExperimentRunning => RunEnded

\* a run that began before the wrap was ended by a test made after it
EndedAfterWrap ==
    /\ StepTaken /\ RunEnded /\ StartedNearWrap
    /\ U32Lt(checkAt, RunBeganAt)
    /\ WrapElapsed(checkAt, RunBeganAt) >= ExperimentDurationMs
    /\ WrapElapsed(checkAt, RunBeganAt) < ExperimentDurationMs + InterlockDelayMs + LoopDtMs

\* C15: when the first control step of a run is about to execute, both commands
\* equal BaseUs.
FirstStepAtBase ==
    (pc = "loop" /\ ExperimentRunning /\ steps = 0) =>
        /\ CmdUs1 = BaseUs /\ CmdUs2 = BaseUs
        /\ out1 = BaseUs /\ out2 = BaseUs

\* C16: after arming, whenever the sensor is outside [PotMinSafe, PotMaxSafe] no
\* actuator is commanded above PulseMinUs, in the idle loop, in the staging slew and
\* in a run alike.
NoDriveWhenUnsafe ==
    (Armed /\ ~IsSafe(pot)) =>
        /\ CmdUs1 <= PulseMinUs /\ CmdUs2 <= PulseMinUs
        /\ out1 <= PulseMinUs /\ out2 <= PulseMinUs

\* C17: a control step in which the interlock fires leaves IntUs, DerivFilt,
\* PotFiltered, lastY, LastTsMs and ExperimentEndMs unchanged, and ExperimentRunning
\* too, unless the end-of-step test of the same loop() iteration finds the run due.
InterlockFrame ==
    [][op' = "Interlock" =>
         /\ UNCHANGED <<IntUs, DerivFilt, PotFiltered, lastY, LastTsMs, ExperimentEndMs>>
         /\ ExperimentRunning
         /\ ExperimentRunning' \/ RunOver(checkAt', ExperimentEndMs)
         /\ ExperimentRunning' =>
               (CmdUs1' = PulseMinUs /\ CmdUs2' = PulseMinUs)]_vars

\* the interlock fired in a run whose controller state had already moved
InterlockMidRun ==
    /\ op = "Interlock" /\ ExperimentRunning
    /\ IntUs # 0 /\ PotFiltered # 0 /\ lastY # 0 /\ LastTsMs # ExperimentStartMs

\* the operations that are request handlers being dispatched
HandlerOps == {"state", "data", "root", "set", "HandleStart"}

\* C18: ExperimentRunning is true only after arming; it becomes true only where
\* HandleStart finishes an accepted start request, and becomes false only at the
\* end-of-step test of a control step at which the time elapsed since the timer was
\* armed is at least ExperimentDurationMs: no handler, interlock or other step
\* changes it.
PhaseChanges ==
    /\ [](ExperimentRunning => Armed)
    /\ [][ExperimentRunning' # ExperimentRunning =>
             \/ /\ ~ExperimentRunning
                /\ op' = "StartFinish" /\ resp'.msg = "started"
             \/ /\ ExperimentRunning
                /\ op' \in {"ControlStep", "Interlock"}
                /\ ElapsedAt(checkAt') >= ExperimentDurationMs]_vars

\* a run with the interlock firing and the gains rewritten beforehand ran to its end
InterlockedRunEnded ==
    /\ StepTaken /\ RunEnded /\ ~potSafe
    /\ KpUsPerCount = KpMax
    /\ ElapsedAt(checkAt) >= ExperimentDurationMs

\* C19: while ExperimentRunning is true no request handler is dispatched and Kp, Ki,
\* Kd and InvertDirection do not change.
NoServiceWhileRunning ==
    [][ExperimentRunning => (UNCHANGED gainVars /\ op' \notin HandlerOps)]_vars

\* control steps of a run taken with gains a request had set before the run
RunningWithSetGains ==
    /\ StepTaken /\ ExperimentRunning
    /\ KpUsPerCount = KpMax /\ KiUsPerCountSec = KiMax /\ InvertDirection
    /\ steps > VarySteps

\* C20: a control step is taken only from loop() entered with ExperimentRunning true;
\* an iteration of loop() entered with ExperimentRunning false that accepts no start
\* request ends with both commands at PulseMinUs and leaves IntUs, DerivFilt,
\* PotFiltered and SampleCount unchanged.
IdleIterationsPark ==
    [][/\ op' \in {"ControlStep", "Interlock"} => (pc = "loop" /\ ExperimentRunning)
       /\ (pc = "loop" /\ ~ExperimentRunning /\ op' # "HandleStart") =>
              /\ CmdUs1' = PulseMinUs /\ CmdUs2' = PulseMinUs
              /\ out1' = PulseMinUs /\ out2' = PulseMinUs
              /\ UNCHANGED <<IntUs, DerivFilt, PotFiltered, SampleCount>>]_vars

\* an idle iteration served a request after a run had left controller state and samples
IdleAfterRun ==
    /\ pc = "loop" /\ ~ExperimentRunning /\ op = "state"
    /\ SamplesReady /\ SampleCount > 0
    /\ IntUs # 0 /\ PotFiltered # 0
    /\ CmdUs1 = PulseMinUs /\ CmdUs2 = PulseMinUs

\* C21: SamplesReady is true only in the idle loop after a run has ended and before
\* the next start request is accepted; a data read answers with samples exactly when
\* SamplesReady is true and SampleCount > 0, and with "no_data" otherwise, so before
\* the first run has ended and during a staging slew it answers "no_data".
DataOnlyWhenReady ==
    /\ SamplesReady => (pc = "loop" /\ ~ExperimentRunning /\ runs > 0)
    /\ op = "data" =>
        /\ resp.msg \in {"data", "no_data"}
        /\ resp.msg = "data" <=> (SamplesReady /\ SampleCount > 0)
        /\ resp.msg = "data" => resp.count = SampleCount
        /\ ~ExperimentRunning

\* a data read after a finished run was answered with its samples
DataServed ==
    /\ op = "data" /\ resp.msg = "data"
    /\ resp.count > 1 /\ RunEnded

\* the seven sample arrays, before and after a step
BufLens == {Len(bufVars[k]) : k \in 1 .. 7}

\* C22: between two accepted start requests no stored sample changes: a step other
\* than the start of HandleStart either leaves SampleCount and all seven arrays as
\* they are, or writes index SampleCount of each array and adds 1 to SampleCount.
SamplesKept ==
    /\ [](BufLens = {SampleCount})
    /\ [][op' # "HandleStart" =>
             \/ UNCHANGED <<SampleCount, bufVars>>
             \/ /\ SampleCount' = SampleCount + 1
                /\ op' \in {"ControlStep", "Interlock"}
                /\ \A k \in 1 .. 7 :
                     /\ Len(bufVars'[k]) = SampleCount + 1
                     /\ SubSeq(bufVars'[k], 1, SampleCount) = bufVars[k]]_vars

\* a run has stored several samples, with different contents
SeveralSamplesStored ==
    /\ StepTaken /\ ExperimentRunning
    /\ SampleCount > 2
    /\ Tms[1] # Tms[2] /\ AdcFilt[1] # AdcFilt[3]

\* C23: the time offsets of two consecutive samples of a run differ by at least
\* SamplePeriodMs.
SamplePeriodKept ==
    \A i \in 1 .. SampleCount - 1 : Tms[i + 1] - Tms[i] >= SamplePeriodMs

\* C24: in a run that started within ExperimentDurationMs of the wrap of the clock,
\* sampling does not stall: the first control step, taken at or after the scheduled
\* time ExperimentStartMs, stores a sample, so after any control step SampleCount > 0.
SamplesAcrossWrap ==
    (StepTaken /\ StartedNearWrap) => SampleCount > 0

\* P + D of the control step just taken, in 1/1000 us
PartialOut ==
    PTerm(KpUsPerCount, ErrOf(PotFiltered, InvertDirection))
        + DTerm(KdUsPerCountPerSec, DerivFilt)

\* C25: a control step whose partial output |P + D| is at or beyond DeltaMaxUs leaves
\* IntUs unchanged; seen at the first step of a run, before which IntUs is 0.
IntegralHeldAtSaturation ==
    (op = "ControlStep" /\ steps = 1 /\ Abs(PartialOut) >= DeltaMaxUs * 1000)
        => IntUs = 0

\* C26: when HandleStart has finished an accepted start request, PotFiltered equals
\* PotCenter.
FilterResetAtStart == op = "StartFinish" => PotFiltered = PotCenter

\* C27: when HandleStart has made the experiment running, IntUs = 0, DerivFilt = 0
\* and LastTsMs is the time at which this start request was accepted.
ControllerResetAtStart ==
    op \in {"HandleStart", "SlewIter", "StartFinish", "SlewResume", "IdleTail"} =>
        /\ IntUs = 0 /\ DerivFilt = 0
        /\ LastTsMs = ExperimentStartMs

\* a second run has become running after a first one had moved the controller state
SecondRunReset ==
    /\ op = "StartFinish" /\ ExperimentRunning /\ runs = 2
    /\ PotFiltered # 0 /\ lastY # 0
    /\ U32Lt(ExperimentStartMs, now)

\* C28: the time step a control step would use is positive whenever it is taken: at
\* the present time, at the millisecond of the previous step, one millisecond later.
DtPositive ==
    \A t \in {now, LastTsMs, U32Add(LastTsMs, 1)} : DtMsOf(t, LastTsMs) > 0

\* the first control step of a run started at millis() = 0 found no time elapsed and
\* integrated over LoopDtMs
FloorUsed ==
    /\ op = "ControlStep" /\ steps = 1
    /\ ExperimentStartMs = U32(0)
    /\ IntUs # 0
    /\ IntUs = IntegrateClamp(0, KiUsPerCountSec, ErrOf(PotFiltered, InvertDirection),
                              LoopDtMs)

\* C29: once energized the relay stays energized, and it is energized in every state
\* from the beginning of arming on.
RelayNeverToggles ==
    /\ [](pc \notin {"setup", "boothold", "relayon"} => relay = "on")
    /\ [][relay = "on" => UNCHANGED relayVars]_vars

\* the relay is on, after a second accepted start request, in a run in which the
\* interlock fires
RelayOnThroughRuns ==
    /\ op = "Interlock" /\ runs = 2 /\ ExperimentRunning
    /\ relay = "on"

SlewDistance ==
    Abs(CmdUs1 - SlewTarget(target1)) + Abs(CmdUs2 - SlewTarget(target2))

\* a step from c to d moves toward t by at most SlewStepUs and not past it
TowardTarget(c, d, t) ==
    /\ Abs(d - c) <= SlewStepUs
    /\ c <= t => (c <= d /\ d <= t)
    /\ c >= t => (t <= d /\ d <= c)

\* C31: every iteration of SlewBothTo moves each channel toward its clamped target by
\* at most SlewStepUs and never past it; as long as a channel is off its target the
\* distance to the targets decreases and the loop goes on, and the iteration that
\* finds both on target is the last; on return the commands equal the clamped
\* arguments.  The distance is a natural number, so the loop terminates.
SlewContract ==
    /\ [](pc = "started" =>
            /\ CmdUs1 = ClampInt(target1, PulseMinUs, PulseMaxUs)
            /\ CmdUs2 = ClampInt(target2, PulseMinUs, PulseMaxUs))
    /\ [][op' = "SlewIter" =>
            /\ TowardTarget(CmdUs1, CmdUs1', ClampInt(target1, PulseMinUs, PulseMaxUs))
            /\ TowardTarget(CmdUs2, CmdUs2', ClampInt(target2, PulseMinUs, PulseMaxUs))
            /\ out1' = CmdUs1' /\ out2' = CmdUs2'
            /\ SlewDistance > 0 => (SlewDistance' < SlewDistance /\ pc' = "slew")
            /\ SlewDistance = 0 => (pc' = "started" /\ UNCHANGED escVars)]_vars

\* a call returned after driving one channel up to the top of the range and the other
\* down to its bottom, both arguments being outside the range
SlewReturnedClamped ==
    /\ pc = "started" /\ op = "SlewIter" /\ steps > 100
    /\ target1 > PulseMaxUs /\ CmdUs1 = PulseMaxUs
    /\ target2 < PulseMinUs /\ CmdUs2 = PulseMinUs

\* C32: no start request is accepted while another one is being processed: no
\* iteration of the staging slew of one HandleStart is suspended in the web service
\* while a second HandleStart resets the controller, the buffer and the start time.
OneStartPerRun == op = "HandleStart" => stack = <<>>

(***************************************************************************)
(* The balance sketch src/PracticeV2.ino: the same controller without the  *)
(* web server and the experiment phases.  setup() arms, slews both         *)
(* channels to BaseUs and initializes the filters; loop() tests the sensor *)
(* and makes a control step every LoopDtMs.                                *)
(***************************************************************************)
\* control steps and interlock holds of loop() in one behaviour
BalanceSteps == 30

\* readings of the sensor: below and above the interlock limits, and inside them
BalanceInputs == {100, 560, PotCenter, 1000}

\* roundf(x / d)
RoundDiv(x, d) == IF x >= 0 THEN (2 * x + d) \div (2 * d) ELSE -((2 * (-x) + d) \div (2 * d))

\* PotFiltered = (int)roundf(PotFiltered + PotAlpha * (raw - PotFiltered))
FilterPotRound(pf, raw) == pf + RoundDiv(raw - pf, AlphaDen)

\* dt in milliseconds: LoopDtMs when LastTsMs is 0, else now - LastTsMs, at least 1
DtMsBalance(t, last) ==
    LET d == U32Val(U32Sub(t, last))
    IN  IF last = U32(0) THEN LoopDtMs ELSE IF d < 1 THEN 1 ELSE d

\* dMeasPerSec = (PotFiltered - LastPotFilt) / dt
DerivBalance(pf, ly, dt) == TruncDiv((pf - ly) * DerivUnit * 1000, dt)

\* allowIntegrate: the output without the integral is not within 5 us of saturation
AllowIntegrate(uNoI) == Abs(uNoI) < (DeltaMaxUs - 5) * 1000

\* the integral after the step: advanced and clamped only when allowIntegrate
IntegrateCond(int, ki, err, dt, uNoI) ==
    IF AllowIntegrate(uNoI) THEN IntegrateClamp(int, ki, err, dt) ELSE int

\* deltaUs = ClampInt((int)roundf(u), -DeltaMaxUs, +DeltaMaxUs)
DeltaOf(uNoI, int) == ClampInt(RoundDiv(uNoI + ITerm(int), 1000), -DeltaMaxUs, DeltaMaxUs)

\* ControlStepPID of the balance sketch for reading raw at time t
BalanceStep(raw, t) ==
    LET dt == DtMsBalance(t, LastTsMs)
        pf == FilterPotRound(PotFiltered, raw)
        err == ErrOf(pf, InvertDirection)
        df == DerivNext(DerivFilt, DerivBalance(pf, lastY, dt))
        uNoI == PTerm(KpUsPerCount, err) + DTerm(KdUsPerCountPerSec, df)
        int == IntegrateCond(IntUs, KiUsPerCountSec, err, dt, uNoI)
        d == DeltaOf(uNoI, int)
        u1 == ClampInt(BaseUs + d, PulseMinUs, PulseMaxUs)
        u2 == ClampInt(BaseUs - d, PulseMinUs, PulseMaxUs)
    IN  [pf |-> pf, int |-> int, df |-> df, d |-> d,
         c1 |-> SlewStep(CmdUs1, u1), c2 |-> SlewStep(CmdUs2, u2)]

\* the state when setup() returns: armed, both channels slewed from the calibration
\* minimum to BaseUs, the filters at the centre, the controller cleared
InitBalance ==
    /\ pc = "loop"
    /\ stack = <<>>
    /\ now = U32(200 + 10 * 1000 + CalMaxHoldMs + CalMinHoldMs + 114 * LoopDtMs)
    /\ pot \in BalanceInputs
    /\ relay = "on" /\ relayOnCalls = 1 /\ relayOffCalls = 1
    /\ CmdUs1 = BaseUs /\ CmdUs2 = BaseUs
    /\ out1 = BaseUs /\ out2 = BaseUs
    /\ target1 = BaseUs /\ target2 = BaseUs
    /\ PotFiltered = PotCenter /\ lastY = PotCenter /\ IntUs = 0 /\ DerivFilt = 0
    /\ LastTsMs = now /\ uDiff = 0
    /\ KpUsPerCount = KpInit /\ KiUsPerCountSec = KiInit
    /\ KdUsPerCountPerSec = KdInit /\ InvertDirection = FALSE
    /\ ExperimentRunning = FALSE /\ ExperimentEndMs = U32(0)
    /\ ExperimentStartMs = U32(0) /\ NextSampleAtMs = U32(0)
    /\ SampleCount = 0 /\ SamplesReady = FALSE
    /\ Tms = <<>> /\ AdcRaw = <<>> /\ AdcFilt = <<>> /\ AdcErr = <<>>
    /\ PUs = <<>> /\ IUs = <<>> /\ DUs = <<>>
    /\ resp = NoResp
    /\ op = "setup"
    /\ jump = 0
    /\ checkAt = U32(0)
    /\ potSafe = IsSafe(pot)
    /\ events = 0 /\ runs = 0 /\ steps = 0

\* the sensor after an iteration: as it was, or moved (MaxEvents times at most)
BalancePotNext ==
    \E raw \in BalanceInputs :
        /\ pot' = raw
        /\ potSafe' = (potSafe /\ IsSafe(raw))
        /\ \/ raw = pot /\ UNCHANGED events
           \/ raw # pot /\ events < MaxEvents /\ events' = events + 1

\* loop() with the reading out of range: MIN to both ESCs, delay(200), return
LoopBalanceUnsafe ==
    /\ pc = "loop" /\ steps < BalanceSteps
    /\ OutOfRange(pot)
    /\ out1' = PulseMinUs /\ out2' = PulseMinUs
    /\ jump' = Max2(Abs(PulseMinUs - out1), Abs(PulseMinUs - out2))
    /\ now' = U32Add(now, InterlockDelayMs)
    /\ op' = "Interlock"
    /\ steps' = steps + 1
    /\ BalancePotNext
    /\ UNCHANGED <<slewVars, pc, stack, resp, checkAt, ctrlVars, gainVars, runVars, sampleVars,
                   relayVars, CmdUs1, CmdUs2, runs>>

\* loop() with the reading in range: ControlStepPID, PrintState, delay(LoopDtMs)
LoopBalanceStep ==
    /\ pc = "loop" /\ steps < BalanceSteps
    /\ ~OutOfRange(pot)
    /\ LET r == BalanceStep(pot, now)
       IN  /\ PotFiltered' = r.pf /\ lastY' = r.pf /\ IntUs' = r.int
           /\ DerivFilt' = r.df /\ LastTsMs' = now /\ uDiff' = r.d
           /\ CmdUs1' = r.c1 /\ CmdUs2' = r.c2
           /\ out1' = r.c1 /\ out2' = r.c2
           /\ jump' = Max2(Abs(r.c1 - out1), Abs(r.c2 - out2))
    /\ now' = U32Add(now, LoopDtMs)
    /\ op' = "ControlStep"
    /\ steps' = steps + 1
    /\ BalancePotNext
    /\ UNCHANGED <<slewVars, pc, stack, resp, checkAt, gainVars, runVars, sampleVars,
                   relayVars, runs>>

NextBalance == LoopBalanceUnsafe \/ LoopBalanceStep

SpecBalance == InitBalance /\ [][NextBalance]_vars

\* C33: once armed, the stored commands are the pulses last written to the ESCs.
StoredIsWritten == Armed => (CmdUs1 = out1 /\ CmdUs2 = out2)

\* the differential output the state holds, before and after the clamp
RawDiff == DiffOutNoClamp(KpUsPerCount, KdUsPerCountPerSec,
                          ErrOf(PotFiltered, InvertDirection), IntUs, DerivFilt)

\* C34: in every control step the interlock does not stop, the differential output d
\* is the clamp of the controller's sum to [-DeltaMaxUs, +DeltaMaxUs], the targets
\* BaseUs + d and BaseUs - d both lie in [PulseMinUs, PulseMaxUs], and a step that
\* does not end the run moves each command toward its target.
DifferentialClamped ==
    [][op' = "ControlStep" =>
          /\ uDiff' = ClampInt(RawDiff', -DeltaMaxUs, DeltaMaxUs)
          /\ PulseMinUs <= BaseUs - Abs(uDiff') /\ BaseUs + Abs(uDiff') <= PulseMaxUs
          /\ ExperimentRunning' =>
                /\ TowardTarget(CmdUs1, CmdUs1', BaseUs + uDiff')
                /\ TowardTarget(CmdUs2, CmdUs2', BaseUs - uDiff')]_vars

\* a control step whose sum was beyond the limit has used the limit
ClampActed ==
    /\ op = "ControlStep" /\ ExperimentRunning
    /\ RawDiff < -DeltaMaxUs
    /\ uDiff = -DeltaMaxUs

=========================================================================
